---- MODULE Spec2Model ----
(***************************************************************************)
(* Branch cleanup action (.github/actions/branch-cleanup/index.js).        *)
(*                                                                         *)
(* One BranchCleanup instance is constructed per process and its run()     *)
(* method is executed once.  run() is a single async function; the model   *)
(* has one action per stretch of code between two awaited API calls.       *)
(* The GitHub repository (the branch source) is the environment: its       *)
(* branch listing, its default branch, the author date of every branch     *)
(* head and the success or failure of every API call.                      *)
(*                                                                         *)
(* Time is counted in hours.                                               *)
(***************************************************************************)
EXTENDS Integers, Sequences, FiniteSets, TLC

\* ------------------------------------------------------------------ bounds

\* Longest branch listing of the repository that is explored.
MaxBranches == 3

\* How many hours the wall clock may advance during the explored behaviours.
MaxTick == 1

\* Largest number of branches of the repositories whose listing is followed
\* page by page in SpecPages.
MaxRepoSize == 205

\* --------------------------------------------------------- program constants

\* getAllBranches: const perPage.
PerPage == 100

\* Hours in a day: Date.setDate counts whole calendar days.
DayLen == 24

\* Default of the days-old input.
DefaultDaysOld == 14

\* ------------------------------------------------------------- environment

\* Branch names of the explored repositories.
Names == {"main", "Main", "develop", "feature/a"}

\* Names the repository may have as its default branch.
DefaultNames == {"main", "develop"}

\* The instant at which the first process computes its cutoff date.
Now0 == 30 * DayLen

\* Author dates a branch head may carry: 15, 14 and 13 days before Now0.
CommitDates == {Now0 - 15 * DayLen, Now0 - DefaultDaysOld * DayLen, Now0 - 13 * DayLen}

\* Marks an author date that no process has read yet.
NoDate == 0 - 1

\* parseInt of a days-old input that is not a number; it also stands for
\* the Invalid Date that Date.setDate(NaN) leaves behind.  The explored
\* numeric values are naturals, so the value is outside them.
NaN == 0 - 2

\* Values of the days-old input after parseInt(... || '14').
DaysOldValues == {DefaultDaysOld, NaN}

\* Values of the exclude-pattern input: unset, a valid pattern, and one
\* that new RegExp rejects.
Patterns == {"", "^dev", "["}

\* Values of the protected-branches input, as the comma separated tokens.
ProtectedInputs == {<<"main", " develop">>, <<"", "">>}

\* Changes of the local-time offset (daylight saving) between an instant and
\* the same wall-clock time a number of calendar days earlier, in hours.
DstShifts == {-1, 0, 1}

Range(s) == {s[i] : i \in DOMAIN s}

\* Sequences without repetition over S of length at most n.
RECURSIVE DistinctSeqs(_, _)
DistinctSeqs(S, n) ==
  IF n = 0 THEN {<<>>}
  ELSE LET shorter == DistinctSeqs(S, n - 1)
       IN  shorter \cup
           UNION {{Append(s, x) : x \in S \ Range(s)} :
                    s \in {t \in shorter : Len(t) = n - 1}}

NoDup(s) == \A i, j \in DOMAIN s : s[i] = s[j] => i = j

\* The branch listings a repository with default branch d can have: branch
\* names are unique, and the default branch exists unless the repository is
\* empty.
Listings(d) ==
  {s \in DistinctSeqs(Names, MaxBranches) : s = <<>> \/ d \in Range(s)}

\* ------------------------------------------------------- pure functions

\* String.prototype.trim on the explored tokens: leading and trailing
\* white space is removed.
Trim(token) ==
  CASE token = " develop" -> "develop"
    [] token = " " -> ""
    [] OTHER -> token

\* parseProtectedBranches: split(',') gives the tokens; each is trimmed and
\* the empty ones are dropped (filter(Boolean)).
RECURSIVE ParseProtectedBranches(_)
ParseProtectedBranches(tokens) ==
  IF tokens = <<>> THEN <<>>
  ELSE LET rest == ParseProtectedBranches(Tail(tokens))
           t == Trim(Head(tokens))
       IN  IF t = "" THEN rest ELSE <<t>> \o rest

\* Array.prototype.includes on an array of strings: strict equality.
Includes(list, name) == \E i \in DOMAIN list : list[i] = name

\* isProtected comparing with the first entry of the list only.
IsProtectedFirstOnly(list, branchName) ==
  list /= <<>> /\ list[1] = branchName

\* isProtected, on the instance's protectedBranches list.
IsProtectedIn(list, branchName) == Includes(list, branchName)

\* Whether new RegExp(pattern) throws a SyntaxError.
RegExpThrows(pattern) == pattern = "["

\* RegExp.prototype.test for the explored patterns and names: an
\* unanchored-at-the-end, case-sensitive match.
RegExpTest(pattern, name) ==
  CASE pattern = "^dev" -> name = "develop"
    [] OTHER -> FALSE

\* matchesExcludePattern with its first test inverted: a set pattern is
\* never consulted.
MatchesExcludePatternInverted(pattern, branchName) ==
  IF pattern /= "" THEN FALSE
  ELSE IF RegExpThrows(pattern) THEN FALSE
  ELSE RegExpTest(pattern, branchName)

\* matchesExcludePattern with a catch that returns true: a pattern that
\* does not compile excludes every branch.
MatchesExcludePatternCatchTrue(pattern, branchName) ==
  IF pattern = "" THEN FALSE
  ELSE IF RegExpThrows(pattern) THEN TRUE
  ELSE RegExpTest(pattern, branchName)

\* matchesExcludePattern: false when the pattern is unset, false (after
\* logging) when it does not compile, else the result of the test.
MatchesExcludePatternOf(pattern, branchName) ==
  IF pattern = "" THEN FALSE
  ELSE IF RegExpThrows(pattern) THEN FALSE
  ELSE RegExpTest(pattern, branchName)

\* cutoffDate: new Date() moved back by daysOld calendar days with
\* Date.setDate, which keeps the local wall-clock time, so the elapsed time
\* is daysOld days plus the change of the local-time offset in between.
CutoffDate(now, days, shift) ==
  IF days = NaN THEN NaN
  ELSE IF days = 0 THEN now
  ELSE now - days * DayLen + shift

\* The age check with <= for <.
IsOlderOrEqual(lastCommitDate, cutoff) == lastCommitDate <= cutoff

\* The age check of run(): lastCommitDate < cutoffDate.
IsOlder(lastCommitDate, cutoff) == lastCommitDate < cutoff

\* The filter keeping every branch, the default branch included.
FilterOutNothing(list, name) == list

\* allBranches.filter(branch => branch.name !== defaultBranch)
FilterOut(list, name) == SelectSeq(list, LAMBDA branch : branch /= name)

\* ------------------------------------------------------------------ state

VARIABLES
  clock,              \* the wall clock, in hours
  dstShift,           \* change of the local-time offset over the last daysOld days
  remote,             \* the repository's branches, in listing order
  repoDefault,        \* the repository's default branch
  commitDate,         \* author date of each branch head (NoDate: not read yet)
  daysOld,            \* this.daysOld
  dryRun,             \* this.dryRun
  protectedInput,     \* the protected-branches input, as tokens
  protectedBranches,  \* this.protectedBranches
  excludePattern,     \* this.excludePattern
  deletedBranches,    \* this.deletedBranches
  skippedBranches,    \* this.skippedBranches
  pc,                 \* where run() stands
  defaultBranch,      \* run(): const defaultBranch
  cutoffDate,         \* run(): const cutoffDate
  nowAtCutoff,        \* the instant new Date() returned for cutoffDate
  page,               \* getAllBranches(): let page
  allBranches,        \* getAllBranches(): const branches, returned to run() as
                      \* allBranches; the names of the branch records
  branchesToProcess,  \* run(): const branchesToProcess, as names
  idx,                \* position of the for-of loop in branchesToProcess
  lastCommitDate,     \* run(): const lastCommitDate of the current iteration
  outputs,            \* the core.setOutput calls made, in order
  failed,             \* whether core.setFailed was called
  calls,              \* the API calls and the matchesExcludePattern calls this
                      \* process has made, in order
  runNo,              \* which process this is
  prev                \* what the previous process left behind

vars == <<clock, dstShift, remote, repoDefault, commitDate, daysOld, dryRun,
          protectedInput, protectedBranches, excludePattern, deletedBranches,
          skippedBranches, pc, defaultBranch, cutoffDate, nowAtCutoff,
          page, allBranches, branchesToProcess, idx, lastCommitDate,
          outputs, failed, calls, runNo, prev>>

envVars == <<dstShift, repoDefault, daysOld, protectedInput, excludePattern, runNo, prev>>

\* What is kept of a process that has ended.
Snapshot ==
  [dryRun |-> dryRun, pc |-> pc, deleted |-> deletedBranches,
   skipped |-> skippedBranches, calls |-> calls, cutoff |-> cutoffDate,
   listing |-> allBranches, outputs |-> outputs, failed |-> failed]

NoPrev ==
  [dryRun |-> FALSE, pc |-> "none", deleted |-> <<>>, skipped |-> <<>>,
   calls |-> <<>>, cutoff |-> NaN, listing |-> <<>>, outputs |-> <<>>,
   failed |-> FALSE]

Call(op, branch, ok) == [op |-> op, branch |-> branch, ok |-> ok]

\* The state after new BranchCleanup() in the first process.
Init ==
  /\ clock = Now0
  /\ dstShift \in DstShifts
  /\ repoDefault \in DefaultNames
  /\ remote \in Listings(repoDefault)
  /\ commitDate = [n \in Names |-> NoDate]
  /\ daysOld \in DaysOldValues
  /\ dryRun \in BOOLEAN
  /\ protectedInput \in ProtectedInputs
  /\ protectedBranches = ParseProtectedBranches(protectedInput)
  /\ excludePattern \in Patterns
  /\ deletedBranches = <<>>
  /\ skippedBranches = <<>>
  /\ pc = "start"
  /\ defaultBranch = ""
  /\ cutoffDate = NaN
  /\ nowAtCutoff = NaN
  /\ page = 1
  /\ allBranches = <<>>
  /\ branchesToProcess = <<>>
  /\ idx = 0
  /\ lastCommitDate = NoDate
  /\ outputs = <<>>
  /\ failed = FALSE
  /\ calls = <<>>
  /\ runNo = 1
  /\ prev = NoPrev

\* ---------------------------------------------------------------- actions

\* addSkippedBranch putting the entry in front of the list (unshift).
AddSkippedBranchInFront(list, branchName, reason) ==
  <<[branch |-> branchName, reason |-> reason]>> \o list

\* addSkippedBranch
AddSkippedBranch(list, branchName, reason) ==
  Append(list, [branch |-> branchName, reason |-> reason])

\* The instance's isProtected and matchesExcludePattern.
IsProtected(branchName) == IsProtectedIn(protectedBranches, branchName)
MatchesExcludePattern(branchName) == MatchesExcludePatternOf(excludePattern, branchName)

\* The branch of the current loop iteration.
branchName == branchesToProcess[idx]

InLoop == pc = "loop" /\ idx <= Len(branchesToProcess)

\* core.setFailed in the catch of run(): the process ends without outputs.
SetFailed ==
  /\ failed' = TRUE
  /\ pc' = "failed"

\* Moving on to the next iteration of the for-of loop.
NextBranch ==
  /\ idx' = idx + 1
  /\ pc' = "loop"
  /\ lastCommitDate' = NoDate

\* Time passes while run() waits for the listing, a commit date or a
\* deletion.  Now0 is the instant at which new Date() is evaluated for the
\* cutoff, so no time passes before that.
Tick ==
  /\ pc \in {"list", "loop", "deleting"}
  /\ clock < Now0 + MaxTick
  /\ clock' = clock + 1
  /\ UNCHANGED <<remote, commitDate, dryRun, protectedBranches,
                 deletedBranches, skippedBranches, pc, defaultBranch,
                 cutoffDate, nowAtCutoff, allBranches, branchesToProcess,
                 idx, lastCommitDate, outputs, failed, calls>>
  /\ UNCHANGED <<envVars, page>>

\* getDefaultBranch throws: repos.get failed.
GetDefaultBranchThrows ==
  /\ pc = "start"
  /\ calls' = Append(calls, Call("repos.get", "", FALSE))
  /\ SetFailed
  /\ UNCHANGED <<clock, remote, commitDate, dryRun, protectedBranches,
                 deletedBranches, skippedBranches, defaultBranch, cutoffDate,
                 nowAtCutoff, allBranches, branchesToProcess, idx,
                 lastCommitDate, outputs>>
  /\ UNCHANGED <<envVars, page>>

\* The default branch is added to the protected list if it is not there.
WithDefaultBranch(list, name) ==
  IF Includes(list, name) THEN list ELSE Append(list, name)

\* getDefaultBranch returns; the default branch is protected and the cutoff
\* date is computed and formatted.  formatDate throws a RangeError on an
\* Invalid Date, which the catch of run() turns into setFailed.
GetDefaultBranchReturns ==
  /\ pc = "start"
  /\ calls' = Append(calls, Call("repos.get", "", TRUE))
  /\ defaultBranch' = repoDefault
  /\ protectedBranches' = WithDefaultBranch(protectedBranches, repoDefault)
  /\ nowAtCutoff' = clock
  /\ cutoffDate' = CutoffDate(clock, daysOld, dstShift)
  /\ IF cutoffDate' = NaN
       THEN SetFailed
       ELSE pc' = "list" /\ failed' = failed
  /\ UNCHANGED <<clock, remote, commitDate, dryRun, deletedBranches,
                 skippedBranches, allBranches, branchesToProcess, idx,
                 lastCommitDate, outputs>>
  /\ UNCHANGED <<envVars, page>>

\* getAllBranches swallowing the error and returning no branches.
GetAllBranchesSwallowsError ==
  /\ pc = "list"
  /\ calls' = Append(calls, Call("repos.listBranches", "", FALSE))
  /\ pc' = "returned"
  /\ UNCHANGED <<clock, remote, commitDate, dryRun, protectedBranches,
                 deletedBranches, skippedBranches, defaultBranch, cutoffDate,
                 nowAtCutoff, allBranches, branchesToProcess, idx,
                 lastCommitDate, outputs, failed>>
  /\ UNCHANGED <<envVars, page>>

\* getAllBranches throws: a listBranches page failed.
GetAllBranchesThrows ==
  /\ pc = "list"
  /\ calls' = Append(calls, Call("repos.listBranches", "", FALSE))
  /\ SetFailed
  /\ UNCHANGED <<clock, remote, commitDate, dryRun, protectedBranches,
                 deletedBranches, skippedBranches, defaultBranch, cutoffDate,
                 nowAtCutoff, allBranches, branchesToProcess, idx,
                 lastCommitDate, outputs>>
  /\ UNCHANGED <<envVars, page>>

\* octokit.rest.repos.listBranches: page number p of the listing, with
\* PerPage branches to a page.
RECURSIVE PageOf(_, _)
PageOf(listing, p) ==
  IF p > 1
    THEN PageOf(SubSeq(listing, PerPage + 1, Len(listing)), p - 1)
    ELSE SubSeq(listing, 1, IF Len(listing) < PerPage THEN Len(listing) ELSE PerPage)

\* The page loop stopping on every page that is not longer than a page.
IsLastPageOrFull(data) == Len(data) <= PerPage

\* The page loop of getAllBranches stops on a page shorter than a page
\* (an empty page stops it before that).
IsLastPage(data) == Len(data) < PerPage

\* getAllBranches returns the listing; the default branch is filtered out,
\* and run() returns early when nothing is left.
GetAllBranchesReturns ==
  /\ branchesToProcess' = FilterOut(allBranches', defaultBranch)
  /\ IF Len(branchesToProcess') = 0
       THEN pc' = "returned" /\ idx' = idx
       ELSE pc' = "loop" /\ idx' = 1
  /\ page' = page

\* A listBranches page arrives: its branches are pushed, and the loop
\* either asks for the next page or getAllBranches returns.
ListBranchesReturns ==
  /\ pc = "list"
  /\ calls' = Append(calls, Call("repos.listBranches", "", TRUE))
  /\ LET data == PageOf(remote, page)
     IN  /\ allBranches' = allBranches \o data
         /\ IF Len(data) = 0 \/ IsLastPage(data)
              THEN GetAllBranchesReturns
              ELSE /\ page' = page + 1
                   /\ pc' = "list"
                   /\ UNCHANGED <<branchesToProcess, idx>>
  /\ UNCHANGED <<clock, remote, commitDate, dryRun, protectedBranches,
                 deletedBranches, skippedBranches, defaultBranch, cutoffDate,
                 nowAtCutoff, lastCommitDate, outputs, failed>>
  /\ UNCHANGED envVars

\* The log of calls with the call of matchesExcludePattern for the branch
\* and its result.
Consulted(cs, name) ==
  Append(cs, Call("matchesExcludePattern", name, MatchesExcludePattern(name)))

\* A protected branch is skipped.
SkipProtected ==
  /\ InLoop
  /\ IsProtected(branchName)
  /\ skippedBranches' = AddSkippedBranch(skippedBranches, branchName, "protected")
  /\ NextBranch
  /\ UNCHANGED <<clock, remote, commitDate, dryRun, protectedBranches,
                 deletedBranches, defaultBranch, cutoffDate, nowAtCutoff,
                 allBranches, branchesToProcess, outputs, failed, calls>>
  /\ UNCHANGED <<envVars, page>>

\* The exclude pattern is tested before the protected list.
SkipExcludedFirst ==
  /\ InLoop
  /\ MatchesExcludePattern(branchName)
  /\ skippedBranches' =
       AddSkippedBranch(skippedBranches, branchName, "matches_exclude_pattern")
  /\ NextBranch
  /\ calls' = Consulted(calls, branchName)
  /\ UNCHANGED <<clock, remote, commitDate, dryRun, protectedBranches,
                 deletedBranches, defaultBranch, cutoffDate, nowAtCutoff,
                 allBranches, branchesToProcess, outputs, failed>>
  /\ UNCHANGED <<envVars, page>>

\* A branch that matches the exclude pattern is skipped.
SkipExcluded ==
  /\ InLoop
  /\ ~IsProtected(branchName)
  /\ MatchesExcludePattern(branchName)
  /\ skippedBranches' =
       AddSkippedBranch(skippedBranches, branchName, "matches_exclude_pattern")
  /\ NextBranch
  /\ calls' = Consulted(calls, branchName)
  /\ UNCHANGED <<clock, remote, commitDate, dryRun, protectedBranches,
                 deletedBranches, defaultBranch, cutoffDate, nowAtCutoff,
                 allBranches, branchesToProcess, outputs, failed>>
  /\ UNCHANGED <<envVars, page>>

\* getBranchLastCommitDate throws and nothing catches it inside the loop.
GetBranchLastCommitDateAborts ==
  /\ InLoop
  /\ ~IsProtected(branchName)
  /\ ~MatchesExcludePattern(branchName)
  /\ calls' = Append(Consulted(calls, branchName),
                     Call("repos.getBranch", branchName, FALSE))
  /\ SetFailed
  /\ UNCHANGED <<clock, remote, commitDate, dryRun, protectedBranches,
                 deletedBranches, skippedBranches, defaultBranch, cutoffDate,
                 nowAtCutoff, allBranches, branchesToProcess, idx,
                 lastCommitDate, outputs>>
  /\ UNCHANGED <<envVars, page>>

\* getBranchLastCommitDate throws and a live run goes on to delete the
\* branch.
GetBranchLastCommitDateFailureDeletes ==
  /\ InLoop
  /\ ~IsProtected(branchName)
  /\ ~MatchesExcludePattern(branchName)
  /\ calls' = Append(Consulted(calls, branchName),
                     Call("repos.getBranch", branchName, FALSE))
  /\ IF dryRun
       THEN /\ skippedBranches' =
                 AddSkippedBranch(skippedBranches, branchName, "error_processing")
            /\ NextBranch
       ELSE /\ skippedBranches' = skippedBranches
            /\ idx' = idx
            /\ pc' = "deleting"
            /\ lastCommitDate' = lastCommitDate
  /\ UNCHANGED <<clock, remote, commitDate, dryRun, protectedBranches,
                 deletedBranches, defaultBranch, cutoffDate, nowAtCutoff,
                 allBranches, branchesToProcess, outputs, failed>>
  /\ UNCHANGED <<envVars, page>>

\* getBranchLastCommitDate throws: the inner catch records the branch.
GetBranchLastCommitDateThrows ==
  /\ InLoop
  /\ ~IsProtected(branchName)
  /\ ~MatchesExcludePattern(branchName)
  /\ calls' = Append(Consulted(calls, branchName),
                     Call("repos.getBranch", branchName, FALSE))
  /\ skippedBranches' =
       AddSkippedBranch(skippedBranches, branchName, "error_processing")
  /\ NextBranch
  /\ UNCHANGED <<clock, remote, commitDate, dryRun, protectedBranches,
                 deletedBranches, defaultBranch, cutoffDate, nowAtCutoff,
                 allBranches, branchesToProcess, outputs, failed>>
  /\ UNCHANGED <<envVars, page>>

\* The branch is older than the cutoff and a dry run records nothing.
OlderThanCutoffDryUnrecorded ==
  IF dryRun
    THEN /\ deletedBranches' = deletedBranches
         /\ idx' = idx + 1
         /\ pc' = "loop"
    ELSE /\ deletedBranches' = deletedBranches
         /\ idx' = idx
         /\ pc' = "deleting"

\* The branch is older than the cutoff and deleteBranch is called without
\* looking at dryRun.
OlderThanCutoffIgnoresDryRun ==
  /\ deletedBranches' = deletedBranches
  /\ idx' = idx
  /\ pc' = "deleting"

\* The branch is older than the cutoff: a dry run records it as deleted, a
\* live run calls deleteBranch.
OlderThanCutoff ==
  IF dryRun
    THEN /\ deletedBranches' = Append(deletedBranches, branchName)
         /\ idx' = idx + 1
         /\ pc' = "loop"
    ELSE /\ deletedBranches' = deletedBranches
         /\ idx' = idx
         /\ pc' = "deleting"

\* getBranchLastCommitDate returns the author date of the branch head and
\* the age check is made.
GetBranchLastCommitDateReturns ==
  /\ InLoop
  /\ ~IsProtected(branchName)
  /\ ~MatchesExcludePattern(branchName)
  /\ calls' = Append(Consulted(calls, branchName),
                     Call("repos.getBranch", branchName, TRUE))
  /\ \E date \in CommitDates :
       /\ commitDate[branchName] \in {NoDate, date}
       /\ commitDate' = [commitDate EXCEPT ![branchName] = date]
       /\ IF IsOlder(date, cutoffDate)
            THEN /\ OlderThanCutoff
                 /\ lastCommitDate' = IF dryRun THEN NoDate ELSE date
                 /\ skippedBranches' = skippedBranches
            ELSE /\ skippedBranches' =
                      AddSkippedBranch(skippedBranches, branchName, "too_recent")
                 /\ deletedBranches' = deletedBranches
                 /\ NextBranch
  /\ UNCHANGED <<clock, remote, dryRun, protectedBranches, defaultBranch,
                 cutoffDate, nowAtCutoff, allBranches, branchesToProcess,
                 outputs, failed>>
  /\ UNCHANGED <<envVars, page>>

\* The repository without the branch whose ref was deleted.
DeleteRef(branches, name) == FilterOut(branches, name)

\* deleteBranch returns true: the ref is gone and the branch is recorded.
DeleteBranchReturnsTrue ==
  /\ pc = "deleting"
  /\ calls' = Append(calls, Call("git.deleteRef", branchName, TRUE))
  /\ remote' = DeleteRef(remote, branchName)
  /\ deletedBranches' = Append(deletedBranches, branchName)
  /\ NextBranch
  /\ UNCHANGED <<clock, commitDate, dryRun, protectedBranches,
                 skippedBranches, defaultBranch, cutoffDate, nowAtCutoff,
                 allBranches, branchesToProcess, outputs, failed>>
  /\ UNCHANGED <<envVars, page>>

\* deleteRef fails and deleteBranch lets the error through to the catch of
\* run().
DeleteBranchFailureAborts ==
  /\ pc = "deleting"
  /\ calls' = Append(calls, Call("git.deleteRef", branchName, FALSE))
  /\ SetFailed
  /\ UNCHANGED <<clock, remote, commitDate, dryRun, protectedBranches,
                 deletedBranches, skippedBranches, defaultBranch, cutoffDate,
                 nowAtCutoff, allBranches, branchesToProcess, idx,
                 lastCommitDate, outputs>>
  /\ UNCHANGED <<envVars, page>>

\* deleteBranch returns false and the branch is recorded nowhere.
DeleteBranchFailureUnrecorded ==
  /\ pc = "deleting"
  /\ calls' = Append(calls, Call("git.deleteRef", branchName, FALSE))
  /\ NextBranch
  /\ UNCHANGED <<clock, remote, commitDate, dryRun, protectedBranches,
                 deletedBranches, skippedBranches, defaultBranch, cutoffDate,
                 nowAtCutoff, allBranches, branchesToProcess, outputs, failed>>
  /\ UNCHANGED <<envVars, page>>

\* deleteBranch returns false and the branch is skipped with the reason of
\* a failed fetch.
DeleteBranchFailureMisrecorded ==
  /\ pc = "deleting"
  /\ calls' = Append(calls, Call("git.deleteRef", branchName, FALSE))
  /\ skippedBranches' =
       AddSkippedBranch(skippedBranches, branchName, "error_processing")
  /\ NextBranch
  /\ UNCHANGED <<clock, remote, commitDate, dryRun, protectedBranches,
                 deletedBranches, defaultBranch, cutoffDate, nowAtCutoff,
                 allBranches, branchesToProcess, outputs, failed>>
  /\ UNCHANGED <<envVars, page>>

\* deleteRef fails and the branch is recorded as deleted all the same.
DeleteBranchFailureRecordedAsDeleted ==
  /\ pc = "deleting"
  /\ calls' = Append(calls, Call("git.deleteRef", branchName, FALSE))
  /\ deletedBranches' = Append(deletedBranches, branchName)
  /\ NextBranch
  /\ UNCHANGED <<clock, remote, commitDate, dryRun, protectedBranches,
                 skippedBranches, defaultBranch, cutoffDate, nowAtCutoff,
                 allBranches, branchesToProcess, outputs, failed>>
  /\ UNCHANGED <<envVars, page>>

\* deleteBranch returns false: deleteRef failed and was logged.
DeleteBranchReturnsFalse ==
  /\ pc = "deleting"
  /\ calls' = Append(calls, Call("git.deleteRef", branchName, FALSE))
  /\ skippedBranches' =
       AddSkippedBranch(skippedBranches, branchName, "deletion_failed")
  /\ NextBranch
  /\ UNCHANGED <<clock, remote, commitDate, dryRun, protectedBranches,
                 deletedBranches, defaultBranch, cutoffDate, nowAtCutoff,
                 allBranches, branchesToProcess, outputs, failed>>
  /\ UNCHANGED <<envVars, page>>

\* The two core.setOutput calls at the end of run().
SetOutputs(deleted, skipped) ==
  <<[name |-> "deleted-branches", deleted |-> deleted, skipped |-> <<>>],
    [name |-> "skipped-branches", deleted |-> <<>>, skipped |-> skipped]>>

\* The loop is over: the summary is printed and the outputs are set.
OutputSummary ==
  /\ pc = "loop"
  /\ idx > Len(branchesToProcess)
  /\ outputs' = outputs \o SetOutputs(deletedBranches, skippedBranches)
  /\ pc' = "done"
  /\ UNCHANGED <<clock, remote, commitDate, dryRun, protectedBranches,
                 deletedBranches, skippedBranches, defaultBranch, cutoffDate,
                 nowAtCutoff, allBranches, branchesToProcess, idx,
                 lastCommitDate, failed, calls>>
  /\ UNCHANGED <<envVars, page>>

Ended == pc \in {"done", "failed", "returned"}

\* A new process that starts with the deleted and the skipped list of the
\* process before it.
NewProcessKeepsLists ==
  /\ Ended
  /\ runNo = 1
  /\ runNo' = runNo + 1
  /\ prev' = Snapshot
  /\ dryRun' \in BOOLEAN
  /\ protectedBranches' = ParseProtectedBranches(protectedInput)
  /\ UNCHANGED <<deletedBranches, skippedBranches>>
  /\ pc' = "start"
  /\ defaultBranch' = ""
  /\ cutoffDate' = NaN
  /\ nowAtCutoff' = NaN
  /\ page' = 1
  /\ allBranches' = <<>>
  /\ branchesToProcess' = <<>>
  /\ idx' = 0
  /\ lastCommitDate' = NoDate
  /\ outputs' = <<>>
  /\ failed' = FALSE
  /\ calls' = <<>>
  /\ UNCHANGED <<clock, dstShift, remote, repoDefault, commitDate, daysOld,
                 protectedInput, excludePattern>>

\* The action is run again (the next scheduled or manual run): a new
\* process constructs a new BranchCleanup from the same inputs, apart from
\* dry-run, against the repository as the previous process left it.
NewProcess ==
  /\ Ended
  /\ runNo = 1
  /\ runNo' = runNo + 1
  /\ prev' = Snapshot
  /\ dryRun' \in BOOLEAN
  /\ protectedBranches' = ParseProtectedBranches(protectedInput)
  /\ deletedBranches' = <<>>
  /\ skippedBranches' = <<>>
  /\ pc' = "start"
  /\ defaultBranch' = ""
  /\ cutoffDate' = NaN
  /\ nowAtCutoff' = NaN
  /\ page' = 1
  /\ allBranches' = <<>>
  /\ branchesToProcess' = <<>>
  /\ idx' = 0
  /\ lastCommitDate' = NoDate
  /\ outputs' = <<>>
  /\ failed' = FALSE
  /\ calls' = <<>>
  /\ UNCHANGED <<clock, dstShift, remote, repoDefault, commitDate, daysOld,
                 protectedInput, excludePattern>>

\* One step of run().
RunStep ==
  \/ GetDefaultBranchThrows
  \/ GetDefaultBranchReturns
  \/ GetAllBranchesThrows
  \/ ListBranchesReturns
  \/ SkipProtected
  \/ SkipExcluded
  \/ GetBranchLastCommitDateThrows
  \/ GetBranchLastCommitDateReturns
  \/ DeleteBranchReturnsTrue
  \/ DeleteBranchReturnsFalse
  \/ OutputSummary

\* One process.
Next == RunStep \/ Tick

Spec == Init /\ [][Next]_vars

\* One process with the clock standing still: run() reads the clock once,
\* for the cutoff date, so what it does after that does not depend on the
\* time that passes.
SpecOneRun == Init /\ [][RunStep]_vars

\* Two consecutive processes against the same repository, with the clock
\* standing still, the default threshold and no change of the local-time
\* offset.
InitRuns ==
  /\ Init
  /\ repoDefault = "main"
  /\ daysOld = DefaultDaysOld
  /\ dstShift = 0

NextRuns == RunStep \/ NewProcess

SpecRuns == InitRuns /\ [][NextRuns]_vars

\* ------------------------------------------------- vocabulary of the claims

\* The candidate set: the listed branches other than the default branch.
Candidates == {b \in Range(allBranches) : b /= repoDefault}

\* The protectedNames of the configuration.
ProtectedNames == {Trim(t) : t \in Range(protectedInput)} \ {""}

\* Whether the configured exclude pattern is a valid pattern matching name.
PatternMatches(name) ==
  /\ excludePattern /= ""
  /\ ~RegExpThrows(excludePattern)
  /\ RegExpTest(excludePattern, name)

TimesDeleted(b) == Cardinality({i \in DOMAIN deletedBranches : deletedBranches[i] = b})

TimesSkipped(b) == Cardinality({i \in DOMAIN skippedBranches : skippedBranches[i].branch = b})

SkippedAs(b, reason) ==
  \E i \in DOMAIN skippedBranches :
    skippedBranches[i] = [branch |-> b, reason |-> reason]

InDeleted(b) == \E i \in DOMAIN deletedBranches : deletedBranches[i] = b

\* The API calls of this process for a branch.
Called(op, b) == \E i \in DOMAIN calls : calls[i].op = op /\ calls[i].branch = b

CalledWith(op, b, ok) == \E i \in DOMAIN calls : calls[i] = Call(op, b, ok)

\* The position of a candidate in the order of processing (0: none).
PositionOf(b) ==
  IF \E i \in DOMAIN branchesToProcess : branchesToProcess[i] = b
    THEN CHOOSE i \in DOMAIN branchesToProcess : branchesToProcess[i] = b
    ELSE 0

\* The loop is past the candidate.
Processed(b) ==
  /\ pc \in {"loop", "deleting", "done"}
  /\ PositionOf(b) > 0
  /\ PositionOf(b) < idx

\* -------------------------------------------------------------------- C1

\* C1: after a run that did not hit a fatal error, every candidate branch
\* is exactly once in the report: once in deleted or once in skipped, not
\* in both and not in neither.
C1_ExactlyOneList ==
  pc \in {"done", "returned"} =>
    \A b \in Candidates : TimesDeleted(b) + TimesSkipped(b) = 1

C1_Witness ==
  /\ pc = "done"
  /\ Cardinality(Candidates) >= 2
  /\ \E b \in Candidates : SkippedAs(b, "deletion_failed")
  /\ \E b \in Candidates : InDeleted(b)

\* -------------------------------------------------------------------- C2

\* C2: a candidate whose name is in protectedNames is skipped with reason
\* protected once the loop is past it, its commit date is never fetched and
\* deleteBranch is never called for it, in dry-run and in live mode.
C2_ProtectedUntouched ==
  \A b \in ProtectedNames :
    /\ ~Called("repos.getBranch", b)
    /\ ~Called("git.deleteRef", b)
    /\ ~InDeleted(b)
    /\ (b \in Candidates /\ (Processed(b) \/ pc = "done")) =>
         /\ SkippedAs(b, "protected")
         /\ TimesSkipped(b) = 1

C2_Witness ==
  /\ pc = "done"
  /\ ~dryRun
  /\ \E b \in ProtectedNames \cap Candidates : SkippedAs(b, "protected")
  /\ \E b \in Candidates : CalledWith("git.deleteRef", b, TRUE)
  /\ "Main" \in Candidates /\ InDeleted("Main") /\ "main" \in ProtectedNames

\* -------------------------------------------------------------------- C3

\* C3: in a dry run no deleteBranch call is ever made, what ever the
\* listing, the commit dates and the fetch failures are: the number of
\* deleteRef calls is zero and the repository keeps its branches.
C3_DryRunNeverDeletes ==
  dryRun =>
    /\ \A i \in DOMAIN calls : calls[i].op /= "git.deleteRef"
    /\ pc /= "deleting"
    /\ (pc /= "start" /\ pc /= "list" /\ pc /= "failed") => remote = allBranches

C3_Witness ==
  /\ dryRun
  /\ pc = "done"
  /\ deletedBranches /= <<>>
  /\ \E b \in Candidates : CalledWith("repos.getBranch", b, FALSE)

\* -------------------------------------------------------------------- C4

\* C4 as stated: every candidate whose name the exclude pattern matches is
\* skipped with reason matches_exclude_pattern and its commit date is never
\* fetched.
C4_Original ==
  \A b \in Candidates :
    PatternMatches(b) =>
      /\ ~Called("repos.getBranch", b)
      /\ (Processed(b) \/ pc = "done") => SkippedAs(b, "matches_exclude_pattern")

\* C4 as amended: every candidate that is not in protectedNames and whose
\* name the exclude pattern matches is skipped with reason
\* matches_exclude_pattern, its commit date is never fetched and no
\* deleteBranch call is made for it; a protected candidate that the pattern
\* matches is skipped as protected instead.
C4_ExcludedSkipped ==
  \A b \in Candidates :
    PatternMatches(b) =>
      /\ ~Called("repos.getBranch", b)
      /\ ~Called("git.deleteRef", b)
      /\ commitDate[b] = NoDate
      /\ (Processed(b) \/ pc = "done") =>
           /\ TimesSkipped(b) = 1
           /\ ~InDeleted(b)
           /\ SkippedAs(b, IF b \in ProtectedNames
                             THEN "protected"
                             ELSE "matches_exclude_pattern")

C4_Witness ==
  /\ pc = "done"
  /\ \E b \in Candidates \ ProtectedNames :
       /\ PatternMatches(b)
       /\ SkippedAs(b, "matches_exclude_pattern")
  /\ deletedBranches /= <<>>

\* -------------------------------------------------------------------- C5

\* The getBranch calls of a process, in order, with their outcomes.
FetchOutcomes(cs) == SelectSeq(cs, LAMBDA c : c.op = "repos.getBranch")

\* The two processes are a dry run and a live run that both ran to the end
\* on the same listing, commit dates, fetch outcomes and cutoff.
PairComparable ==
  /\ runNo = 2
  /\ prev.pc \in {"done", "returned"}
  /\ pc \in {"done", "returned"}
  /\ prev.dryRun /= dryRun
  /\ prev.listing = allBranches
  /\ prev.cutoff = cutoffDate
  /\ FetchOutcomes(prev.calls) = FetchOutcomes(calls)

ThisRun == [deleted |-> deletedBranches, skipped |-> skippedBranches, calls |-> calls]

PrevRun == [deleted |-> prev.deleted, skipped |-> prev.skipped, calls |-> prev.calls]

DryRunOfPair == IF dryRun THEN ThisRun ELSE PrevRun

LiveRunOfPair == IF dryRun THEN PrevRun ELSE ThisRun

Reasons ==
  {"protected", "matches_exclude_pattern", "too_recent", "deletion_failed",
   "error_processing"}

Skip(b, reason) == [branch |-> b, reason |-> reason]

\* C5 as stated: a dry run and a live run on the same inputs produce the
\* same deleted list and the same skipped list.
C5_Original ==
  PairComparable =>
    /\ DryRunOfPair.deleted = LiveRunOfPair.deleted
    /\ DryRunOfPair.skipped = LiveRunOfPair.skipped

\* C5 as amended: a dry run and a live run on the same inputs produce the
\* same deleted list and the same skipped list provided no deleteBranch
\* call of the live run fails.  A branch whose deletion fails is in the dry
\* run's deleted list and in the live run's skipped list (deletion_failed);
\* every other branch has the same outcome in both runs, and the dry run
\* makes no deleteRef call.
C5_DryRunMatchesLiveRun ==
  PairComparable =>
    /\ (\A i \in DOMAIN LiveRunOfPair.calls :
          LiveRunOfPair.calls[i].op = "git.deleteRef" => LiveRunOfPair.calls[i].ok)
         => /\ DryRunOfPair.deleted = LiveRunOfPair.deleted
            /\ DryRunOfPair.skipped = LiveRunOfPair.skipped
    /\ \A b \in Names :
         /\ b \in Range(DryRunOfPair.deleted)
              <=> \/ b \in Range(LiveRunOfPair.deleted)
                  \/ Skip(b, "deletion_failed") \in Range(LiveRunOfPair.skipped)
         /\ Skip(b, "deletion_failed") \notin Range(DryRunOfPair.skipped)
         /\ \A r \in Reasons \ {"deletion_failed"} :
              Skip(b, r) \in Range(DryRunOfPair.skipped)
                <=> Skip(b, r) \in Range(LiveRunOfPair.skipped)
    /\ \A i \in DOMAIN DryRunOfPair.calls :
         DryRunOfPair.calls[i].op /= "git.deleteRef"

C5_Witness ==
  /\ PairComparable
  /\ ~dryRun
  /\ Len(deletedBranches) >= 1
  /\ Len(skippedBranches) >= 1
  /\ prev.deleted = deletedBranches
  /\ \E b \in Candidates : CalledWith("git.deleteRef", b, TRUE)
  /\ \E b \in Candidates : SkippedAs(b, "too_recent")

\* ---------------------------------------------------------------- C6, C7

\* What the report says about a branch.
Outcomes(b) ==
  {r \in Reasons : SkippedAs(b, r)} \cup (IF InDeleted(b) THEN {"deleted"} ELSE {})

\* The outcome of a candidate as a function of its own name, its own commit
\* date and the results of the API calls made for it alone.
OwnOutcome(b) ==
  IF b \in ProtectedNames THEN "protected"
  ELSE IF PatternMatches(b) THEN "matches_exclude_pattern"
  ELSE IF CalledWith("repos.getBranch", b, FALSE) THEN "error_processing"
  ELSE IF commitDate[b] >= cutoffDate THEN "too_recent"
  ELSE IF dryRun THEN "deleted"
  ELSE IF CalledWith("git.deleteRef", b, TRUE) THEN "deleted"
  ELSE "deletion_failed"

\* The candidates after b are processed, each with its own outcome, as far
\* as the loop has come, and all of them once the run is done.
LaterCandidatesUnaffected(b) ==
  LET p == PositionOf(b)
  IN  /\ p > 0
      /\ Candidates = Range(branchesToProcess)
      /\ \A j \in (p + 1)..Len(branchesToProcess) :
           (j < idx \/ pc = "done") =>
             LET c == branchesToProcess[j]
             IN  /\ Outcomes(c) = {OwnOutcome(c)}
                 /\ TimesDeleted(c) + TimesSkipped(c) = 1

\* The run has not aborted and is not stuck: it is done or can take a step.
RunGoesOn ==
  /\ ~failed
  /\ pc \in {"loop", "deleting", "done"}
  /\ pc /= "done" => ENABLED RunStep

\* C6: in a live run, a branch whose deleteBranch call failed is skipped
\* with reason deletion_failed and is not in deleted, the run does not
\* abort, and every later candidate is processed with the outcome its own
\* inputs give it.
C6_DeletionFailureIsolated ==
  \A b \in Candidates :
    CalledWith("git.deleteRef", b, FALSE) =>
      /\ ~dryRun
      /\ SkippedAs(b, "deletion_failed")
      /\ TimesSkipped(b) = 1
      /\ ~InDeleted(b)
      /\ RunGoesOn
      /\ LaterCandidatesUnaffected(b)

C6_Witness ==
  /\ pc = "done"
  /\ \E b, c \in Candidates :
       /\ CalledWith("git.deleteRef", b, FALSE)
       /\ PositionOf(c) > PositionOf(b)
       /\ CalledWith("git.deleteRef", c, TRUE)
       /\ InDeleted(c)

\* C7: a candidate whose commit-date fetch failed is skipped with reason
\* error_processing, deleteBranch is never called for it, the run does not
\* abort, and every later candidate is processed with the outcome its own
\* inputs give it.
C7_FetchFailureIsolated ==
  \A b \in Candidates :
    CalledWith("repos.getBranch", b, FALSE) =>
      /\ SkippedAs(b, "error_processing")
      /\ TimesSkipped(b) = 1
      /\ ~InDeleted(b)
      /\ ~Called("git.deleteRef", b)
      /\ RunGoesOn
      /\ LaterCandidatesUnaffected(b)

C7_Witness ==
  /\ pc = "done"
  /\ ~dryRun
  /\ \E b, c \in Candidates :
       /\ CalledWith("repos.getBranch", b, FALSE)
       /\ PositionOf(c) > PositionOf(b)
       /\ CalledWith("repos.getBranch", c, TRUE)
       /\ InDeleted(c)

\* -------------------------------------------------------------------- C8

FatalError ==
  \/ CalledWith("repos.get", "", FALSE)
  \/ CalledWith("repos.listBranches", "", FALSE)

\* C8: when resolving the default branch or listing the branches fails,
\* the run ends as a failure: no output is set, nothing is recorded, no
\* commit date is fetched and no deleteBranch call is made.
C8_FatalErrorAborts ==
  FatalError =>
    /\ pc = "failed"
    /\ failed
    /\ outputs = <<>>
    /\ deletedBranches = <<>>
    /\ skippedBranches = <<>>
    /\ \A i \in DOMAIN calls :
         calls[i].op \notin {"repos.getBranch", "git.deleteRef"}
    /\ ~ENABLED RunStep

C8_Witness ==
  /\ pc = "failed"
  /\ CalledWith("repos.listBranches", "", FALSE)
  /\ ~dryRun
  /\ Len(FilterOut(remote, repoDefault)) >= 2

\* -------------------------------------------------------------------- C9

\* C9: every run in which resolving the default branch and listing the
\* branches both succeeded ends having set the two outputs exactly once,
\* and the outputs are not set before the last candidate is processed; for
\* every size of the candidate set.
C9_ReportEmittedOnce ==
  /\ (CalledWith("repos.listBranches", "", TRUE) /\ Ended) =>
        outputs = SetOutputs(deletedBranches, skippedBranches)
  /\ outputs /= <<>> => (pc = "done" /\ idx > Len(branchesToProcess))

\* ------------------------------------------------------------------- C10

\* The age check found the branch older than the cutoff.
Deletable(b) ==
  \/ InDeleted(b)
  \/ SkippedAs(b, "deletion_failed")
  \/ (pc = "deleting" /\ branchName = b)

C10_Classified ==
  /\ pc \in {"list", "loop", "deleting", "done", "returned"} =>
       /\ cutoffDate /= NaN
       /\ cutoffDate - (nowAtCutoff - daysOld * DayLen) \in {-1, 0, 1}
  /\ \A b \in Candidates :
       CalledWith("repos.getBranch", b, TRUE) =>
         /\ Deletable(b) <=> commitDate[b] < cutoffDate
         /\ SkippedAs(b, "too_recent") <=> commitDate[b] >= cutoffDate
         /\ (daysOld = 14 /\ commitDate[b] <= nowAtCutoff - 15 * DayLen)
              => Deletable(b)
         /\ (daysOld = 14 /\ commitDate[b] >= nowAtCutoff - 13 * DayLen)
              => SkippedAs(b, "too_recent")

\* C10: the age decision uses one cutoff, computed once from the clock when
\* the run starts as that instant minus daysOld calendar days and not
\* changed afterwards, and a strict comparison: a fetched candidate is
\* Deletable exactly when its date is before the cutoff and too_recent when
\* it is at or after it; with 14 days a branch last committed 15 days ago
\* is Deletable and one last committed 13 days ago is too_recent.
C10_SingleCutoffStrict ==
  /\ []C10_Classified
  /\ [][(pc \in {"list", "loop", "deleting"}) => (cutoffDate' = cutoffDate)]_vars

C10_Witness ==
  /\ pc = "done"
  /\ daysOld = 14
  /\ clock > nowAtCutoff
  /\ \E b, c \in Candidates :
       /\ commitDate[b] = cutoffDate
       /\ SkippedAs(b, "too_recent")
       /\ commitDate[c] = nowAtCutoff - 15 * DayLen
       /\ InDeleted(c)

\* ------------------------------------------------------------------- C11

\* C11: the default branch is never a candidate, what ever the protected
\* names, the exclude pattern, the threshold, the mode and the listing are:
\* its name is never in the deleted list nor in the skipped list, it is not
\* among the branches to process, its commit date is never fetched, no
\* deleteBranch call is made for it and it stays in the repository.
C11_DefaultNeverCandidate ==
  /\ ~InDeleted(repoDefault)
  /\ TimesSkipped(repoDefault) = 0
  /\ repoDefault \notin Range(branchesToProcess)
  /\ ~Called("matchesExcludePattern", repoDefault)
  /\ ~Called("repos.getBranch", repoDefault)
  /\ ~Called("git.deleteRef", repoDefault)
  /\ commitDate[repoDefault] = NoDate
  /\ repoDefault \in Range(allBranches) => repoDefault \in Range(remote)

C11_Witness ==
  /\ pc = "done"
  /\ ~dryRun
  /\ repoDefault = "develop"
  /\ repoDefault \in Range(allBranches)
  /\ ~IsProtectedIn(ParseProtectedBranches(protectedInput), repoDefault)
  /\ RegExpTest(excludePattern, repoDefault)
  /\ Len(deletedBranches) >= 1
  /\ Len(skippedBranches) >= 1

\* ------------------------------------------------------------------- C12

\* new RegExp(excludePattern) has thrown in this run: the pattern does not
\* compile and matchesExcludePattern has been called.
PatternFailedToCompile ==
  /\ RegExpThrows(excludePattern)
  /\ \E i \in DOMAIN calls : calls[i].op = "matchesExcludePattern"

\* The outcome of a candidate on the commit-date path, with no pattern.
DatePathOutcome(b) ==
  IF CalledWith("repos.getBranch", b, FALSE) THEN "error_processing"
  ELSE IF commitDate[b] >= cutoffDate THEN "too_recent"
  ELSE IF dryRun THEN "deleted"
  ELSE IF CalledWith("git.deleteRef", b, TRUE) THEN "deleted"
  ELSE "deletion_failed"

\* C12: when the exclude pattern has failed to compile, the run does not
\* abort and ends with its report emitted, every matchesExcludePattern call
\* returns false so that no branch is skipped with reason
\* matches_exclude_pattern, and every candidate that is not protected has
\* its commit date fetched and gets the outcome of the commit-date path.
C12_InvalidPatternNeverMatches ==
  PatternFailedToCompile =>
    /\ RunGoesOn
    /\ pc = "done" => outputs = SetOutputs(deletedBranches, skippedBranches)
    /\ \A i \in DOMAIN calls :
         calls[i].op = "matchesExcludePattern" => ~calls[i].ok
    /\ \A i \in DOMAIN skippedBranches :
         skippedBranches[i].reason /= "matches_exclude_pattern"
    /\ \A b \in Candidates \ ProtectedNames :
         (Processed(b) \/ pc = "done") =>
           /\ Called("repos.getBranch", b)
           /\ Outcomes(b) = {DatePathOutcome(b)}
           /\ TimesDeleted(b) + TimesSkipped(b) = 1

C12_Witness ==
  /\ pc = "done"
  /\ PatternFailedToCompile
  /\ ~dryRun
  /\ "develop" \in Candidates \ ProtectedNames
  /\ InDeleted("develop")
  /\ \E b \in Candidates \ ProtectedNames : SkippedAs(b, "too_recent")
  /\ outputs /= <<>>

\* ------------------------------------------------------------------- C13

\* C13: every entry of the skipped list has a reason of the closed set, and
\* the reason is that of the branch's classification: protected only for a
\* protected name, matches_exclude_pattern only for an unprotected name the
\* pattern matches, error_processing only after the fetch of its commit
\* date failed, too_recent only when the fetched date is not before the
\* cutoff, deletion_failed only after a deleteBranch call for it failed.
C13_ReasonMatchesClassification ==
  \A i \in DOMAIN skippedBranches :
    LET b == skippedBranches[i].branch
        reason == skippedBranches[i].reason
    IN  /\ reason \in Reasons
        /\ reason = "protected" => b \in ProtectedNames
        /\ reason = "matches_exclude_pattern" =>
             b \notin ProtectedNames /\ PatternMatches(b)
        /\ reason = "error_processing" =>
             /\ CalledWith("repos.getBranch", b, FALSE)
             /\ ~Called("git.deleteRef", b)
        /\ reason = "too_recent" =>
             /\ CalledWith("repos.getBranch", b, TRUE)
             /\ commitDate[b] /= NoDate
             /\ ~(commitDate[b] < cutoffDate)
             /\ ~Called("git.deleteRef", b)
        /\ reason = "deletion_failed" =>
             /\ CalledWith("git.deleteRef", b, FALSE)
             /\ CalledWith("repos.getBranch", b, TRUE)
             /\ commitDate[b] < cutoffDate

C13_Witness ==
  /\ pc = "done"
  /\ \E b, c \in Candidates :
       /\ SkippedAs(b, "deletion_failed")
       /\ SkippedAs(c, "error_processing")
  /\ \E i \in DOMAIN skippedBranches : skippedBranches[i].reason = "deletion_failed"

\* ------------------------------------------------------------------- C14

\* The two processes are dry runs that both ran to the end, with the same
\* fetch outcomes and the same cutoff.
DryPair ==
  /\ runNo = 2
  /\ prev.dryRun
  /\ dryRun
  /\ prev.pc \in {"done", "returned"}
  /\ pc \in {"done", "returned"}
  /\ prev.cutoff = cutoffDate
  /\ FetchOutcomes(prev.calls) = FetchOutcomes(calls)

\* C14: a dry run leaves the repository as it listed it, so a second dry
\* run with the same configuration lists the same branches; and two dry
\* runs with the same fetch outcomes and the same cutoff end the same way
\* with the same deleted list, the same skipped list and the same outputs.
C14_DryRunIdempotent ==
  /\ (dryRun /\ pc \in {"loop", "done", "returned"}) => remote = allBranches
  /\ (runNo = 2 /\ prev.dryRun /\ prev.pc \in {"done", "returned"} /\ pc = "start")
       => remote = prev.listing
  /\ DryPair =>
       /\ prev.listing = allBranches
       /\ prev.pc = pc
       /\ prev.deleted = deletedBranches
       /\ prev.skipped = skippedBranches
       /\ prev.outputs = outputs
       /\ prev.calls = calls

C14_Witness ==
  /\ DryPair
  /\ pc = "done"
  /\ Len(deletedBranches) >= 1
  /\ Len(skippedBranches) >= 1
  /\ Len(prev.deleted) >= 1
  /\ outputs /= <<>>
  /\ \E b \in Candidates : CalledWith("repos.getBranch", b, TRUE)

\* ------------------------------------------------------------------- C15

\* A repository of n branches: the default branch and numbered branches.
NumberedBranches(n) == [i \in 1..n |-> IF i = 1 THEN "main" ELSE ToString(i)]

\* The state after new BranchCleanup() against a repository of up to
\* MaxRepoSize branches, with the default inputs.
InitPages ==
  /\ clock = Now0
  /\ dstShift = 0
  /\ repoDefault = "main"
  /\ \E n \in 0..MaxRepoSize : remote = NumberedBranches(n)
  /\ commitDate = [n \in Names |-> NoDate]
  /\ daysOld = DefaultDaysOld
  /\ dryRun \in BOOLEAN
  /\ protectedInput = <<"main", " develop">>
  /\ protectedBranches = ParseProtectedBranches(protectedInput)
  /\ excludePattern = ""
  /\ deletedBranches = <<>>
  /\ skippedBranches = <<>>
  /\ pc = "start"
  /\ defaultBranch = ""
  /\ cutoffDate = NaN
  /\ nowAtCutoff = NaN
  /\ page = 1
  /\ allBranches = <<>>
  /\ branchesToProcess = <<>>
  /\ idx = 0
  /\ lastCommitDate = NoDate
  /\ outputs = <<>>
  /\ failed = FALSE
  /\ calls = <<>>
  /\ runNo = 1
  /\ prev = NoPrev

\* run() up to the return of getAllBranches.
NextPages ==
  \/ GetDefaultBranchThrows
  \/ GetDefaultBranchReturns
  \/ GetAllBranchesThrows
  \/ ListBranchesReturns

SpecPages == InitPages /\ [][NextPages]_vars

\* Every awaited API call is answered or fails, and the continuation of
\* run() is then run by the event loop.
FairSpecPages == SpecPages /\ WF_vars(NextPages)

\* The number of listBranches pages that have arrived.
PagesFetched ==
  Cardinality({i \in DOMAIN calls : calls[i] = Call("repos.listBranches", "", TRUE)})

\* getAllBranches has returned.
ListingReturned == pc \in {"loop", "returned"}

\* While getAllBranches follows the pages, the branches it holds are the
\* first (page - 1) * 100 branches of the repository, in order, and the
\* next page is asked for; what it returns is the whole listing.
C15_PagesInOrder ==
  /\ page \in 1..(Len(remote) \div PerPage + 1)
  /\ pc = "list" =>
       /\ PagesFetched = page - 1
       /\ Len(allBranches) = (page - 1) * PerPage
       /\ Len(allBranches) <= Len(remote)
       /\ allBranches = SubSeq(remote, 1, Len(allBranches))
       /\ ENABLED ListBranchesReturns
  /\ ListingReturned =>
       /\ allBranches = remote
       /\ PagesFetched = Len(remote) \div PerPage + 1
       /\ branchesToProcess = FilterOut(remote, repoDefault)

\* C15: getAllBranches terminates, by returning or by throwing, after at
\* most one more page than the full pages of the repository, and what it
\* returns is every branch of the repository once, in page order: none is
\* missing, repeated or out of place, with no branch at all, with fewer
\* than 100, with an exact multiple of 100 and with more; it does not stop
\* at a page boundary while branches are left.
C15_AllPagesFollowed ==
  /\ []C15_PagesInOrder
  /\ <>(ListingReturned \/ pc = "failed")

C15_Witness ==
  /\ ListingReturned
  /\ Len(remote) = 2 * PerPage
  /\ Len(allBranches) = 2 * PerPage
  /\ page = 3
  /\ PagesFetched = 3

\* ------------------------------------------------------------------- C16

\* The number of calls of op made for the branch.
TimesCalled(op, b) ==
  Cardinality({i \in DOMAIN calls : calls[i].op = op /\ calls[i].branch = b})

\* Call number i was preceded by the call c.
PrecededBy(i, c) == \E j \in 1..(i - 1) : calls[j] = c

\* C16: classification has a fixed priority, evaluated once per candidate:
\* the protected list first, then the exclude pattern, then the fetch of
\* the commit date, then the age.  The pattern and the commit date are
\* consulted for unprotected candidates only and at most once each, the
\* date is fetched only after the pattern did not match, deleteBranch is
\* called only after the date was fetched, and a candidate past the loop
\* has the one outcome that this order gives it: a candidate that is
\* protected and matched by the pattern is skipped as protected.
C16_ClassificationPriority ==
  /\ \A i \in DOMAIN calls :
       LET b == calls[i].branch
       IN  /\ calls[i].op = "matchesExcludePattern" =>
                /\ b \notin ProtectedNames
                /\ calls[i].ok = PatternMatches(b)
           /\ calls[i].op = "repos.getBranch" =>
                /\ b \notin ProtectedNames
                /\ i > 1
                /\ calls[i - 1] = Call("matchesExcludePattern", b, FALSE)
           /\ calls[i].op = "git.deleteRef" =>
                PrecededBy(i, Call("repos.getBranch", b, TRUE))
  /\ \A i, j \in DOMAIN calls :
       (i < j /\ calls[i].branch = calls[j].branch) => calls[i].op /= calls[j].op
  /\ \A j \in DOMAIN branchesToProcess :
       (j < idx \/ pc = "done") =>
         LET b == branchesToProcess[j]
         IN  /\ TimesDeleted(b) + TimesSkipped(b) = 1
             /\ IF OwnOutcome(b) = "deleted"
                  THEN InDeleted(b)
                  ELSE SkippedAs(b, OwnOutcome(b))
             /\ IF b \in ProtectedNames
                  THEN /\ SkippedAs(b, "protected")
                       /\ ~Called("matchesExcludePattern", b)
                       /\ ~Called("repos.getBranch", b)
                  ELSE Called("matchesExcludePattern", b)

C16_Witness ==
  /\ pc = "done"
  /\ \E b, c \in Candidates :
       /\ b \in ProtectedNames
       /\ PatternMatches(b)
       /\ SkippedAs(b, "protected")
       /\ c \notin ProtectedNames
       /\ CalledWith("matchesExcludePattern", c, FALSE)
       /\ InDeleted(c)

\* ------------------------------------------------------------------- C17

\* The position of a name in a list that holds it.
IndexIn(list, name) == CHOOSE i \in DOMAIN list : list[i] = name

\* Every name of s is in list, and the names of s are in the order they
\* have in list: each is further down the list than the one before it.
IsSubsequenceOf(s, list) ==
  /\ \A i \in DOMAIN s : s[i] \in Range(list)
  /\ \A i \in 1..(Len(s) - 1) : IndexIn(list, s[i]) < IndexIn(list, s[i + 1])

\* The names of the skipped list, in order.
SkippedNames == [i \in DOMAIN skippedBranches |-> skippedBranches[i].branch]

\* C17: listing order is preserved.  The candidates are the listing without
\* the default branch, in listing order; they are processed one at a time
\* in that order, so the branches in the report are the candidates before
\* the current one, and at every point of the run the deleted list and the
\* skipped list are each a subsequence of the listing.
C17_ListingOrderPreserved ==
  /\ IsSubsequenceOf(branchesToProcess, allBranches)
  /\ IsSubsequenceOf(deletedBranches, allBranches)
  /\ IsSubsequenceOf(SkippedNames, allBranches)
  /\ pc \in {"loop", "deleting"} =>
       Range(deletedBranches) \cup Range(SkippedNames)
         = {branchesToProcess[j] : j \in 1..(idx - 1)}
  /\ \A i \in DOMAIN calls :
       calls[i].branch /= "" =>
         /\ PositionOf(calls[i].branch) \in 1..idx
         /\ i > 1
         /\ calls[i - 1].branch /= "" =>
              PositionOf(calls[i - 1].branch) <= PositionOf(calls[i].branch)

C17_Witness ==
  /\ pc = "done"
  /\ allBranches = <<"feature/a", "main", "Main">>
  /\ SkippedNames = <<"feature/a", "Main">>

\* ------------------------------------------------------------------- C18

\* deleteBranch may be called for the branch: the run is live, the branch
\* is a candidate that is neither protected nor matched by the pattern, and
\* its commit date was fetched and is before the cutoff.
MayBeDeleted(b) ==
  /\ ~dryRun
  /\ b /= repoDefault
  /\ b \in Candidates
  /\ b \notin ProtectedNames
  /\ ~PatternMatches(b)
  /\ CalledWith("repos.getBranch", b, TRUE)
  /\ ~CalledWith("repos.getBranch", b, FALSE)
  /\ commitDate[b] /= NoDate
  /\ commitDate[b] < cutoffDate

\* C18: deleteBranch is called in a live run only, at most once for a
\* branch, and only for a candidate that is not the default branch, not
\* protected, not matched by the exclude pattern and whose commit date was
\* fetched and is strictly before the cutoff, in every state of the run.
\* Deletions are one at a time: a deletion in flight is that of the current
\* candidate, every earlier deletion has been answered, and after a
\* deleteBranch call every call is for a later candidate.
C18_DeleteOnlyWhenJustified ==
  /\ \A i \in DOMAIN calls :
       calls[i].op = "git.deleteRef" =>
         LET b == calls[i].branch
         IN  /\ MayBeDeleted(b)
             /\ TimesCalled("git.deleteRef", b) = 1
             /\ PrecededBy(i, Call("repos.getBranch", b, TRUE))
             /\ PositionOf(b) < idx
             /\ \A j \in (i + 1)..Len(calls) :
                  PositionOf(calls[j].branch) > PositionOf(b)
  /\ pc = "deleting" =>
       /\ idx \in DOMAIN branchesToProcess
       /\ MayBeDeleted(branchName)
       /\ ~Called("git.deleteRef", branchName)
       /\ calls[Len(calls)] = Call("repos.getBranch", branchName, TRUE)
  /\ \A b \in Range(allBranches) :
       b \notin Range(remote) => CalledWith("git.deleteRef", b, TRUE)

C18_Witness ==
  /\ pc = "deleting"
  /\ \E b \in Candidates :
       /\ b /= branchName
       /\ CalledWith("git.deleteRef", b, TRUE)
       /\ b \notin Range(remote)
  /\ commitDate[branchName] < cutoffDate

\* ------------------------------------------------------------------- C19

\* The deleteRef calls that succeeded, in order.
SuccessfulDeletions ==
  SelectSeq(calls, LAMBDA c : c.op = "git.deleteRef" /\ c.ok)

\* The branches of the successful deleteRef calls, in order.
DeletedOnRemote ==
  [i \in DOMAIN SuccessfulDeletions |-> SuccessfulDeletions[i].branch]

\* C19: in a live run the deleted list is faithful to the side effects, in
\* every state of the run: it is, in order, the sequence of the branches
\* whose deleteBranch call succeeded, so a name is in it if and only if a
\* deleteBranch call for that branch was made and succeeded; these are the
\* branches that the repository has lost, and at the end of the run the
\* deleted-branches output is this list.
C19_DeletedListFaithful ==
  ~dryRun =>
    /\ deletedBranches = DeletedOnRemote
    /\ \A b \in Names : InDeleted(b) <=> CalledWith("git.deleteRef", b, TRUE)
    /\ \A b \in Range(allBranches) : InDeleted(b) <=> b \notin Range(remote)
    /\ \A b \in Names : TimesDeleted(b) <= 1
    /\ pc = "done" => outputs[1].deleted = DeletedOnRemote

C19_Witness ==
  /\ ~dryRun
  /\ pc = "done"
  /\ \E b, c \in Candidates :
       /\ CalledWith("git.deleteRef", b, FALSE)
       /\ CalledWith("git.deleteRef", c, TRUE)
       /\ deletedBranches = <<c>>
       /\ c \notin Range(remote)
       /\ b \in Range(remote)

====
